---- MODULE Spec2Model ----
(***************************************************************************)
(* RuralEdu authentication service: POST /api/auth/signup,                 *)
(* POST /api/auth/login (the two sides of the merge conflict in            *)
(* login/route.ts: the bearer variant and the cookie variant),             *)
(* GET /api/auth/me, POST /api/auth/logout and the token helpers of        *)
(* lib/auth.ts, over the User table of the relational store; and, from the *)
(* documents and components of the front end, the route guard of           *)
(* middleware.ts with the login page, the error handler handleError and    *)
(* the Button component.                                                   *)
(*                                                                         *)
(* Strings of the program are TLA+ strings; a JSON body is a record; the   *)
(* User table is a set of rows; time is counted in days.                   *)
(***************************************************************************)
EXTENDS Integers, Sequences, FiniteSets, TLC

VARIABLES
    env,        \* process.env and the deployed side of login/route.ts
    users,      \* the User table (prisma.user)
    now,        \* the clock, in days
    pc,         \* per worker: where its signup handler stands ("idle" between requests)
    req,        \* per worker: the request it handles, or handled last
    resp,       \* per worker: the response to req, once the handler returned
    local,      \* per worker: hashedPassword of the signup in progress
    held,       \* the client's last successful login: its credentials and the token received
    accepted,   \* history: the credentials and id of every signup answered 201
    browser     \* the browser: its token cookie, the clicks on the Button and the calls made

vars == <<env, users, now, pc, req, resp, local, held, accepted, browser>>

---------------------------------------------------------------------------
(* Bounds of the model. *)

\* The clock runs from day 0 to day MaxTime.
MaxTime == 8

\* Ids a token presented to GET /api/auth/me may name: 1..MaxId.
MaxId == 3

\* Clicks on the rendered Button: up to MaxClicks.
MaxClicks == 6

---------------------------------------------------------------------------
(* Values. *)

\* A JSON field that is not there (JavaScript undefined).
Absent == "<undefined>"

\* SQL NULL / JavaScript null.
Null == "<null>"

\* Variant: the empty string taken for a value.
FalsyButEmpty(v) == v \in {Absent, Null}

\* JavaScript's !v on the values of the model.
Falsy(v) == v \in {Absent, Null, ""}

\* Emails a request may carry. "abc" is a non-empty string that is no email address.
Emails == {"a@b.com", "c@d.org", "abc", "", Absent}

\* The strings among them that z.string().email() accepts.
WellFormedEmails == {"a@b.com", "c@d.org"}

\* Passwords a login request may carry; a signup request carries the first or none.
Passwords == {"secret123", "letmein", "", Absent}

\* fullName and dateOfBirth of a signup request: both given, or both left out.
Profiles ==
    { [fullName |-> "John Doe", dateOfBirth |-> "2000-01-01"],
      [fullName |-> Absent, dateOfBirth |-> Absent] }

\* Salts bcrypt may draw.
Salts == {"saltA", "saltB"}

\* The concurrent request handlers of the two specifications.
OneWorker == {"w1"}

TwoWorkers == {"w1", "w2"}

Workers == DOMAIN pc

---------------------------------------------------------------------------
(* Configuration. *)

\* bcrypt.hash(password, 10)
SaltRounds == 10

\* expiresIn: "7d"
TokenTTL == 7

\* The fallback of process.env.JWT_SECRET, the same literal in login/route.ts and lib/auth.ts.
DefaultSecret == "ruraledu-secret-key-change-in-production"

\* Variant: the login route signing with a key of its own.
RouteJwtSecretOwnKey == "login-route-key"

\* const JWT_SECRET = process.env.JWT_SECRET || "ruraledu-secret-key-change-in-production"
\* as login/route.ts reads it
RouteJwtSecret == IF Falsy(env.JWT_SECRET) THEN DefaultSecret ELSE env.JWT_SECRET

\* Variant: lib/auth.ts falling back to another literal than the login route.
JWT_SECRET_OtherFallback ==
    IF Falsy(env.JWT_SECRET) THEN "supersecretkey" ELSE env.JWT_SECRET

\* the same line of lib/auth.ts
JWT_SECRET == IF Falsy(env.JWT_SECRET) THEN DefaultSecret ELSE env.JWT_SECRET

\* The names lib/auth.ts exports.
AuthExports == {"verifyToken", "generateToken"}

\* The deployments explored: which side of login/route.ts is built, and process.env.
Deployments ==
    { [variant |-> v, JWT_SECRET |-> e.JWT_SECRET, NODE_ENV |-> e.NODE_ENV] :
        v \in {"bearer", "cookie"},
        e \in { [JWT_SECRET |-> Absent, NODE_ENV |-> "development"],
                [JWT_SECRET |-> "s3cr3t-from-env", NODE_ENV |-> "production"] } }

---------------------------------------------------------------------------
(* bcryptjs. *)

\* bcrypt.hash(pw, rounds) with the salt it drew: "$2a$<rounds>$<salt><digest>".
BcryptHash(pw, salt, rounds) ==
    "$2a$" \o ToString(rounds) \o "$" \o salt \o "$H(" \o pw \o ")"

\* Variant: a comparison that every password passes.
BcryptCompareAny(pw, hash) == TRUE

\* bcrypt.compare(pw, hash): re-hash pw with the salt and rounds read from hash.
BcryptCompare(pw, hash) ==
    \E salt \in Salts : hash = BcryptHash(pw, salt, SaltRounds)

---------------------------------------------------------------------------
(* The store (Prisma client on the User table). *)

\* Variant: a lookup that finds nobody.
FindByEmailNobody(email) == {}

\* prisma.user.findUnique({ where: { email } }): the rows found (none or one).
FindByEmail(email) == {u \in users : u.email = email}

\* Variant: the first row, whatever the id asked for.
FindByIdAny(id) == IF users = {} THEN {} ELSE {CHOOSE u \in users : TRUE}

\* prisma.user.findUnique({ where: { id } })
FindById(id) == {u \in users : u.id = id}

\* Variant: a User table without the unique index on email.
UniqueViolationNoIndex(email) == FALSE

\* The unique index on User.email: an insert of a second row with the email fails.
UniqueViolation(email) == \E u \in users : u.email = email

\* The id the store gives the next row.
NextId == Cardinality(users) + 1

\* new Date(dateOfBirth) as JSON shows it.
ToDate(s) == IF s = "2000-01-01" THEN "2000-01-01T00:00:00.000Z" ELSE "Invalid Date"

\* createdAt and updatedAt are set by the store; the routes only pass them on.
StoreStamp == "2024-01-01T00:00:00.000Z"

\* The row prisma.user.create({ data }) inserts.
NewRow(data) ==
    [ id |-> NextId,
      email |-> data.email,
      password |-> data.password,
      fullName |-> IF data.fullName = Absent THEN Null ELSE data.fullName,
      role |-> data.role,
      dateOfBirth |-> data.dateOfBirth,
      createdAt |-> StoreStamp,
      updatedAt |-> StoreStamp ]

\* Variant: the row handed on as it is.
WithPassword(u) == u

\* const { password: _, ...userWithoutPassword } = user
WithoutPassword(u) == [f \in (DOMAIN u) \ {"password"} |-> u[f]]

\* What String(error) shows of a failed store call.
DbDownText == "PrismaClientInitializationError: Cannot reach database server"

UniqueText == "PrismaClientKnownRequestError: Unique constraint failed on the fields: (email)"

---------------------------------------------------------------------------
(* Requests and responses. *)

NoReq == [route |-> "none"]

NoResp == [status |-> 0, branch |-> "none", body |-> [none |-> TRUE]]

Response(status, branch, body) == [status |-> status, branch |-> branch, body |-> body]

\* A complete signup body.
SignupBody(email, profile) ==
    [ email |-> email, password |-> "secret123", role |-> "LEARNER",
      fullName |-> profile.fullName, dateOfBirth |-> profile.dateOfBirth ]

\* The signup bodies over the given emails and profiles: the complete ones, and
\* those with email, password or role empty or left out.
SignupBodies(emails, profiles) ==
    LET full == {SignupBody(e, pf) : e \in emails, pf \in profiles}
        base == SignupBody("a@b.com", CHOOSE pf \in profiles : TRUE)
    IN  full \cup {[base EXCEPT !.email = v] : v \in {"", Absent}}
             \cup {[base EXCEPT !.password = v] : v \in {"", Absent}}
             \cup {[base EXCEPT !.role = Absent]}

---------------------------------------------------------------------------
(* POST /api/auth/signup, one step per store or bcrypt call it awaits. *)

\* The catch block of the signup handler.
SignupFailure(text) ==
    Response(500, "error", [error |-> "Something went wrong", details |-> text])

\* Variant: the request's password stored as it came.
SignupDataPlain(body, hashedPassword) ==
    [ email |-> body.email,
      password |-> body.password,
      fullName |-> body.fullName,
      role |-> body.role,
      dateOfBirth |-> IF Falsy(body.dateOfBirth) THEN Null ELSE ToDate(body.dateOfBirth) ]

\* The data of prisma.user.create in the signup handler.
SignupData(body, hashedPassword) ==
    [ email |-> body.email,
      password |-> hashedPassword,
      fullName |-> body.fullName,
      role |-> body.role,
      dateOfBirth |-> IF Falsy(body.dateOfBirth) THEN Null ELSE ToDate(body.dateOfBirth) ]

\* From request.json() to the answer of findUnique.
SignupBegin(p, body, db) ==
    /\ pc[p] = "idle"
    /\ req' = [req EXCEPT ![p] = [route |-> "signup", body |-> body]]
    /\ IF Falsy(body.email) \/ Falsy(body.password) \/ Falsy(body.role)
       THEN /\ resp' = [resp EXCEPT ![p] =
                   Response(400, "missing", [error |-> "Missing required fields"])]
            /\ pc' = pc
       ELSE IF db = "down"
       THEN /\ resp' = [resp EXCEPT ![p] = SignupFailure(DbDownText)]
            /\ pc' = pc
       ELSE IF FindByEmail(body.email) # {}
       THEN /\ resp' = [resp EXCEPT ![p] =
                   Response(400, "exists", [error |-> "User already exists"])]
            /\ pc' = pc
       ELSE /\ resp' = [resp EXCEPT ![p] = NoResp]
            /\ pc' = [pc EXCEPT ![p] = "hash"]
    /\ UNCHANGED <<env, users, now, local, held, accepted, browser>>

\* const hashedPassword = await bcrypt.hash(password, 10)
SignupHash(p, salt) ==
    /\ pc[p] = "hash"
    /\ local' = [local EXCEPT ![p] = BcryptHash(req[p].body.password, salt, SaltRounds)]
    /\ pc' = [pc EXCEPT ![p] = "create"]
    /\ UNCHANGED <<env, users, now, req, resp, held, accepted, browser>>

\* Variant: the insert that leaves the new row alone in the table.
CreatedAlone(table, row) == {row}

\* The User table after prisma.user.create inserted row.
Created(table, row) == table \cup {row}

\* prisma.user.create under the unique index on email, and the 201 response.
SignupCreate(p, db) ==
    /\ pc[p] = "create"
    /\ pc' = [pc EXCEPT ![p] = "idle"]
    /\ local' = [local EXCEPT ![p] = ""]
    /\ IF db = "down"
       THEN /\ resp' = [resp EXCEPT ![p] = SignupFailure(DbDownText)]
            /\ UNCHANGED <<users, accepted>>
       ELSE IF UniqueViolation(req[p].body.email)
       THEN /\ resp' = [resp EXCEPT ![p] = SignupFailure(UniqueText)]
            /\ UNCHANGED <<users, accepted>>
       ELSE LET newUser == NewRow(SignupData(req[p].body, local[p])) IN
            /\ users' = Created(users, newUser)
            /\ resp' = [resp EXCEPT ![p] =
                   Response(201, "created", WithoutPassword(newUser))]
            /\ accepted' = accepted \cup
                   { [email |-> req[p].body.email,
                      password |-> req[p].body.password,
                      id |-> newUser.id] }
    /\ UNCHANGED <<env, now, req, held, browser>>

---------------------------------------------------------------------------
(* jsonwebtoken. A token is its payload and a signature over that payload. *)

NoToken == [kind |-> "none"]

\* A string that is no JWT.
Garbage == [kind |-> "garbage"]

\* jwt.sign(claims, secret, { expiresIn }) at the present time.
JwtSign(claims, secret, ttl) ==
    LET payload == [ id |-> claims.id, email |-> claims.email, role |-> claims.role,
                     iat |-> now, exp |-> now + ttl ]
    IN  [kind |-> "jwt", payload |-> payload, sig |-> [key |-> secret, over |-> payload]]

\* The outcome of a call: it threw, or it returned value (a set: empty for null).
Threw == [threw |-> TRUE, value |-> {}]

Returned(value) == [threw |-> FALSE, value |-> value]

\* Variant: exp is not looked at.
JwtVerifyIgnoringExp(token, secret) ==
    IF /\ token.kind = "jwt"
       /\ token.sig = [key |-> secret, over |-> token.payload]
    THEN Returned({token.payload})
    ELSE Threw

\* jwt.verify(token, secret): returns the decoded payload; throws on a malformed
\* token, on an invalid signature and once exp is reached.
JwtVerify(token, secret) ==
    IF /\ token.kind = "jwt"
       /\ token.sig = [key |-> secret, over |-> token.payload]
       /\ now < token.payload.exp
    THEN Returned({token.payload})
    ELSE Threw

\* The client before its first successful login.
NoLogin == [email |-> Absent, password |-> Absent, token |-> NoToken]

\* generateToken(payload) of lib/auth.ts
GenerateToken(payload) == JwtSign(payload, JWT_SECRET, TokenTTL)

\* Variant: verifyToken without its catch block.
VerifyTokenUncaught(request) ==
    IF request.authorization.scheme # "Bearer"
    THEN Returned({})
    ELSE JwtVerify(request.authorization.token, JWT_SECRET)

\* verifyToken(req) of lib/auth.ts: the payload, or null; its catch block turns
\* whatever jwt.verify throws into null.
VerifyToken(request) ==
    IF request.authorization.scheme # "Bearer"
    THEN Returned({})
    ELSE LET decoded == JwtVerify(request.authorization.token, JWT_SECRET) IN
         IF decoded.threw THEN Returned({}) ELSE decoded

---------------------------------------------------------------------------
(* POST /api/auth/login, bearer variant (HEAD side of login/route.ts). *)

\* Variant: the password schema without min(1).
LoginSchemaErrorsAnyString(body) ==
    (IF body.email = Absent THEN {"email: Required"}
     ELSE IF body.email \notin WellFormedEmails THEN {"email: Invalid email address"}
     ELSE {})
    \cup
    (IF body.password = Absent THEN {"password: Required"} ELSE {})

\* loginSchema.safeParse(body): the messages of the issues found.
LoginSchemaErrors(body) ==
    (IF body.email = Absent THEN {"email: Required"}
     ELSE IF body.email \notin WellFormedEmails THEN {"email: Invalid email address"}
     ELSE {})
    \cup
    (IF body.password = Absent THEN {"password: Required"}
     ELSE IF body.password = "" THEN {"password: Password is required"}
     ELSE {})

\* Variant: the absent user told apart from the wrong password.
BearerNoUserDistinct ==
    Response(404, "nouser", [success |-> FALSE, message |-> "User not found"])

\* The answer where findUnique returned no user.
BearerNoUser ==
    Response(401, "nouser", [success |-> FALSE, message |-> "Invalid email or password"])

\* The answer where bcrypt.compare returned false.
BearerBadPassword ==
    Response(401, "badpassword",
        [success |-> FALSE, message |-> "Invalid email or password"])

\* Variant: one id in every token.
TokenClaimsOneId(user) == [id |-> 1, email |-> user.email, role |-> user.role]

\* The first argument of jwt.sign in the login route.
TokenClaims(user) == [id |-> user.id, email |-> user.email, role |-> user.role]

LoginBearer(body, db) ==
    IF LoginSchemaErrors(body) # {}
    THEN Response(400, "invalid",
             [success |-> FALSE, message |-> "Validation failed",
              errors |-> LoginSchemaErrors(body)])
    ELSE IF db = "down"
    THEN Response(500, "error",
             IF env.NODE_ENV = "development"
             THEN [success |-> FALSE, message |-> "Internal server error",
                   error |-> DbDownText]
             ELSE [success |-> FALSE, message |-> "Internal server error"])
    ELSE IF FindByEmail(body.email) = {}
    THEN BearerNoUser
    ELSE LET user == CHOOSE u \in FindByEmail(body.email) : TRUE IN
         IF ~BcryptCompare(body.password, user.password)
         THEN BearerBadPassword
         ELSE Response(200, "ok",
                  [success |-> TRUE, message |-> "Login successful",
                   token |-> JwtSign(TokenClaims(user), RouteJwtSecret, TokenTTL),
                   user |-> WithoutPassword(user)])

---------------------------------------------------------------------------
(* POST /api/auth/login, cookie variant (the other side of login/route.ts). *)

LoginCookie(body, db) ==
    IF Falsy(body.email) \/ Falsy(body.password)
    THEN Response(400, "invalid", [error |-> "Missing email or password"])
    ELSE IF db = "down"
    THEN Response(500, "error", [error |-> "Internal server error"])
    ELSE IF FindByEmail(body.email) = {}
    THEN Response(401, "nouser", [error |-> "Invalid credentials"])
    ELSE LET user == CHOOSE u \in FindByEmail(body.email) : TRUE IN
         IF ~BcryptCompare(body.password, user.password)
         THEN Response(401, "badpassword", [error |-> "Invalid credentials"])
         ELSE IF "login" \notin AuthExports
         THEN \* login is undefined: the call throws and the catch block answers
              Response(500, "error", [error |-> "Internal server error"])
         ELSE Response(200, "ok",
                  [message |-> "Logged in successfully", user |-> WithoutPassword(user)])

\* The login handler of the deployed variant.
LoginResponse(variant, body, db) ==
    IF variant = "bearer" THEN LoginBearer(body, db) ELSE LoginCookie(body, db)

LoginBodies == [email : Emails, password : Passwords]

Login(p, body, db) ==
    /\ pc[p] = "idle"
    /\ req' = [req EXCEPT ![p] = [route |-> "login", body |-> body]]
    /\ LET r == LoginResponse(env.variant, body, db) IN
       /\ resp' = [resp EXCEPT ![p] = r]
       /\ held' = IF r.status = 200 /\ "token" \in DOMAIN r.body
                  THEN [email |-> body.email, password |-> body.password,
                        token |-> r.body.token]
                  ELSE held
    /\ UNCHANGED <<env, users, now, pc, local, accepted, browser>>

---------------------------------------------------------------------------
(* GET /api/auth/me *)

MeResponse(request, db) ==
    IF VerifyToken(request).threw
    THEN Response(500, "error", [success |-> FALSE, message |-> "Internal server error"])
    ELSE IF VerifyToken(request).value = {}
    THEN Response(401, "unauthorized",
             [success |-> FALSE, message |-> "Unauthorized - Invalid or missing token"])
    ELSE LET payload == CHOOSE x \in VerifyToken(request).value : TRUE IN
         IF db = "down"
         THEN Response(500, "error",
                  [success |-> FALSE, message |-> "Internal server error"])
         ELSE IF FindById(payload.id) = {}
         THEN Response(404, "nouser", [success |-> FALSE, message |-> "User not found"])
         ELSE LET u == CHOOSE x \in FindById(payload.id) : TRUE IN
              Response(200, "ok",
                  [success |-> TRUE,
                   user |-> [f \in {"id", "fullName", "email", "role", "createdAt"} |-> u[f]]])

\* The held token with its payload altered and the signature left as it was.
Tampered(token) ==
    [token EXCEPT !.payload.id = (token.payload.id % MaxId) + 1]

\* The held token signed again with a key that is not the server's.
Resigned(token) ==
    [token EXCEPT !.sig.key = "attacker-key"]

\* A token for id, signed today with the server's secret outside the login route.
SignedFor(id) == GenerateToken([id |-> id, email |-> "a@b.com", role |-> "LEARNER"])

\* Tokens a client may present.
PresentedTokens ==
    {Garbage} \cup {SignedFor(id) : id \in 1..MaxId}
              \cup (IF held.token = NoToken
                    THEN {}
                    ELSE {held.token, Tampered(held.token), Resigned(held.token)})

\* Requests to GET /api/auth/me: no Authorization header, one of another scheme, or a
\* Bearer one; with or without the session cookie.
MeRequests ==
    { [authorization |-> h, cookie |-> c] :
        h \in {[scheme |-> "none"]}
              \cup {[scheme |-> "Basic", token |-> t] : t \in {Garbage}}
              \cup {[scheme |-> "Bearer", token |-> t] : t \in PresentedTokens},
        c \in {NoToken, held.token} }

Me(p, request, db) ==
    /\ pc[p] = "idle"
    /\ req' = [req EXCEPT ![p] = [route |-> "me", request |-> request]]
    /\ resp' = [resp EXCEPT ![p] = MeResponse(request, db)]
    /\ UNCHANGED <<env, users, now, pc, local, held, accepted, browser>>

---------------------------------------------------------------------------
(* POST /api/auth/logout: no handler in the sources; taken from the API document,
   which gives one response and no failure. *)

\* Variant: the acknowledgment kept for requests whose token verifies.
LogoutResponseGuarded(request) ==
    IF VerifyToken(request).value = {}
    THEN Response(401, "unauthorized", [message |-> "Unauthorized"])
    ELSE Response(200, "ok", [message |-> "Logged out successfully"])

LogoutResponse(request) ==
    Response(200, "ok", [message |-> "Logged out successfully"])

\* Requests to logout: with no credentials, with the login's token as a Bearer
\* header or as the cookie, or with a string that is no token.
LogoutRequests ==
    { r \in MeRequests :
        \/ r.authorization.scheme = "none"
        \/ r.authorization.scheme = "Bearer"
              /\ r.authorization.token \in {Garbage, held.token} }

\* Variant: a logout that replaces the signing secret of the server.
LogoutRotating(p, request) ==
    /\ pc[p] = "idle"
    /\ req' = [req EXCEPT ![p] = [route |-> "logout", request |-> request]]
    /\ resp' = [resp EXCEPT ![p] = LogoutResponse(request)]
    /\ env' = [env EXCEPT !.JWT_SECRET = "rotated-at-logout"]
    /\ UNCHANGED <<users, now, pc, local, held, accepted, browser>>

\* Nothing is kept on the server; discarding the token is left to the client.
Logout(p, request) ==
    /\ pc[p] = "idle"
    /\ req' = [req EXCEPT ![p] = [route |-> "logout", request |-> request]]
    /\ resp' = [resp EXCEPT ![p] = LogoutResponse(request)]
    /\ UNCHANGED <<env, users, now, pc, local, held, accepted, browser>>

---------------------------------------------------------------------------
(* middleware.ts and the login page of docs/page-routing.md. *)

\* s.startsWith(prefix)
StartsWith(s, prefix) ==
    Len(s) >= Len(prefix) /\ SubSeq(s, 1, Len(prefix)) = prefix

\* const JWT_SECRET = process.env.JWT_SECRET || "supersecretkey"
MiddlewareSecret == IF Falsy(env.JWT_SECRET) THEN "supersecretkey" ELSE env.JWT_SECRET

\* The cookie value "mock.jwt.token": three parts, the first of which decodes to no
\* JSON header, so that jwt.verify throws on it.
MockToken == [kind |-> "mock.jwt.token"]

Redirect(location) == Response(307, "redirect", [location |-> location])

\* NextResponse.next(): the request goes on to the page.
PassOn(pathname) == Response(200, "next", [page |-> pathname])

\* config.matcher: "/dashboard/:path*" and "/users/:path*".
Matcher(pathname) ==
    \/ pathname \in {"/dashboard", "/users"}
    \/ StartsWith(pathname, "/dashboard/")
    \/ StartsWith(pathname, "/users/")

\* Variant: any token cookie taken for a login, without jwt.verify.
MiddlewareUnverified(pathname, token) ==
    IF StartsWith(pathname, "/login") \/ pathname = "/"
    THEN PassOn(pathname)
    ELSE IF StartsWith(pathname, "/dashboard") \/ StartsWith(pathname, "/users")
    THEN IF token = NoToken THEN Redirect("/login") ELSE PassOn(pathname)
    ELSE PassOn(pathname)

\* middleware(req), with token the value of the cookie named token.
Middleware(pathname, token) ==
    IF StartsWith(pathname, "/login") \/ pathname = "/"
    THEN PassOn(pathname)
    ELSE IF StartsWith(pathname, "/dashboard") \/ StartsWith(pathname, "/users")
    THEN IF token = NoToken
         THEN Redirect("/login")
         ELSE IF JwtVerify(token, MiddlewareSecret).threw
         THEN Redirect("/login")
         ELSE PassOn(pathname)
    ELSE PassOn(pathname)

\* A page request as Next.js serves it: through the middleware where the matcher
\* selects the path, straight to the page elsewhere.
PageResponse(pathname, token) ==
    IF Matcher(pathname) THEN Middleware(pathname, token) ELSE PassOn(pathname)

Pathnames ==
    {"/", "/login", "/login/help", "/dashboard", "/dashboard/settings", "/users",
     "/users/1", "/about", "/dashboards"}

\* A token signed today with the secret of the middleware.
MiddlewareSigned ==
    JwtSign([id |-> 1, email |-> "a@b.com", role |-> "LEARNER"], MiddlewareSecret, TokenTTL)

\* Values a request may carry in its token cookie.
CookieTokens ==
    {NoToken, Garbage, MockToken, MiddlewareSigned, browser.cookie}
    \cup (IF held.token = NoToken THEN {} ELSE {held.token, Resigned(held.token)})

\* The browser asks for a page.
Navigate(p, pathname, token) ==
    /\ pc[p] = "idle"
    /\ req' = [req EXCEPT ![p] = [route |-> "page", pathname |-> pathname, cookie |-> token]]
    /\ resp' = [resp EXCEPT ![p] = PageResponse(pathname, token)]
    /\ UNCHANGED <<env, users, now, pc, local, held, accepted, browser>>

\* handleLogin of app/login/page.tsx: Cookies.set("token", "mock.jwt.token"), then
\* router.push("/dashboard") and the request that it makes.
HandleLogin(p) ==
    /\ pc[p] = "idle"
    /\ browser' = [browser EXCEPT !.cookie = MockToken]
    /\ req' = [req EXCEPT ![p] =
                 [route |-> "page", pathname |-> "/dashboard", cookie |-> MockToken]]
    /\ resp' = [resp EXCEPT ![p] = PageResponse("/dashboard", MockToken)]
    /\ UNCHANGED <<env, users, now, pc, local, held, accepted>>

---------------------------------------------------------------------------
(* lib/errorHandler.ts and the route that uses it, of docs/Client-Side.md. *)

\* What a catch block may hold: an Error, an Error without a message, a thrown
\* string (it has neither message nor stack), and undefined or null, as after
\* "throw undefined" or a promise rejected without a reason.
ErrorValues ==
    { [kind |-> "Error", message |-> "Database connection failed!",
       stack |-> "Error: Database connection failed! at GET (route.ts:5)"],
      [kind |-> "Error", message |-> "", stack |-> "Error at GET (route.ts:5)"],
      [kind |-> "string", message |-> Absent, stack |-> Absent],
      [kind |-> "undefined", message |-> Absent, stack |-> Absent],
      [kind |-> "null", message |-> Absent, stack |-> Absent] }

SafeMessage == "Something went wrong. Please try again later."

\* The errorResponse object as NextResponse.json writes it: JSON leaves out a stack
\* that is undefined.
ErrorBody(error, isProd) ==
    IF isProd
    THEN [success |-> FALSE, message |-> SafeMessage]
    ELSE IF error.stack = Absent
    THEN [success |-> FALSE,
          message |-> IF Falsy(error.message) THEN "Unknown error" ELSE error.message]
    ELSE [success |-> FALSE,
          message |-> IF Falsy(error.message) THEN "Unknown error" ELSE error.message,
          stack |-> error.stack]

\* handleError(error, context). Reading error.message of undefined or of null is a
\* TypeError: in production it is raised by the argument of logger.error, elsewhere
\* already by errorResponse.
HandleError(error, context) ==
    IF error.kind \in {"undefined", "null"}
    THEN Threw
    ELSE Returned({Response(500, "error", ErrorBody(error, env.NODE_ENV = "production"))})

\* The answer of Next.js to a route handler that threw.
Uncaught == Response(500, "uncaught", [none |-> TRUE])

\* GET of app/api/users/route.ts: whatever its try block throws goes to handleError.
ApiUsersGet(p, error) ==
    /\ pc[p] = "idle"
    /\ req' = [req EXCEPT ![p] = [route |-> "users", error |-> error]]
    /\ resp' = [resp EXCEPT ![p] =
                  LET handled == HandleError(error, "GET /api/users") IN
                  IF handled.threw THEN Uncaught ELSE CHOOSE r \in handled.value : TRUE]
    /\ UNCHANGED <<env, users, now, pc, local, held, accepted, browser>>

---------------------------------------------------------------------------
(* components/button.jsx *)

\* Variant: a button that drops the onClick prop.
OnClickDropped(calls) == calls

\* <button onClick={onClick}>: React calls the prop once for a click event.
OnClick(calls) == calls + 1

\* fireEvent.click(button), or the user's click on the rendered Button.
Click ==
    /\ browser.clicks < MaxClicks
    /\ browser' = [browser EXCEPT !.clicks = @ + 1, !.calls = OnClick(@)]
    /\ UNCHANGED <<env, users, now, pc, req, resp, local, held, accepted>>

---------------------------------------------------------------------------
(* The clock. *)

Tick ==
    /\ now < MaxTime
    /\ now' = now + 1
    /\ UNCHANGED <<env, users, pc, req, resp, local, held, accepted, browser>>

---------------------------------------------------------------------------
(* Specifications. *)

InitWith(W, D) ==
    /\ env \in D
    /\ users = {}
    /\ now = 0
    /\ pc = [p \in W |-> "idle"]
    /\ req = [p \in W |-> NoReq]
    /\ resp = [p \in W |-> NoResp]
    /\ local = [p \in W |-> ""]
    /\ held = NoLogin
    /\ accepted = {}
    /\ browser = [cookie |-> NoToken, clicks |-> 0, calls |-> 0]

\* The three steps of a signup request.
SignupStep(p, bodies, salts) ==
    \/ \E body \in bodies, db \in {"up", "down"} : SignupBegin(p, body, db)
    \/ \E salt \in salts : SignupHash(p, salt)
    \/ \E db \in {"up", "down"} : SignupCreate(p, db)

\* The whole service, one request at a time, as time passes.
Init == InitWith(OneWorker, Deployments)

Next ==
    \/ \E p \in Workers :
          SignupStep(p, SignupBodies({"a@b.com", "abc"}, {CHOOSE pf \in Profiles : TRUE}),
                     {CHOOSE s \in Salts : TRUE})
    \/ \E p \in Workers, body \in LoginBodies, db \in {"up", "down"} : Login(p, body, db)
    \/ \E p \in Workers, db \in {"up", "down"} : \E r \in MeRequests : Me(p, r, db)
    \/ \E p \in Workers : \E r \in LogoutRequests : Logout(p, r)
    \/ Tick

Spec == Init /\ [][Next]_vars

\* Signup requests alone, two of them in flight at a time.
InitSignup == InitWith(TwoWorkers, {CHOOSE d \in Deployments : TRUE})

NextSignup ==
    \E p \in Workers : SignupStep(p, SignupBodies({"a@b.com", "abc"}, Profiles), Salts)

SpecSignup == InitSignup /\ [][NextSignup]_vars

\* The pages behind the middleware, with signup and login to obtain tokens.
PagesBodies == SignupBodies({"a@b.com"}, {CHOOSE pf \in Profiles : TRUE})

NextPages ==
    \/ \E p \in Workers : SignupStep(p, PagesBodies, {CHOOSE s \in Salts : TRUE})
    \/ \E p \in Workers, body \in LoginBodies, db \in {"up", "down"} : Login(p, body, db)
    \/ \E p \in Workers, pathname \in Pathnames :
          \E token \in CookieTokens : Navigate(p, pathname, token)
    \/ \E p \in Workers : HandleLogin(p)
    \/ Tick

SpecPages == Init /\ [][NextPages]_vars

\* The error handler behind its route, and the Button under clicks.
NextClient ==
    \/ \E p \in Workers, error \in ErrorValues : ApiUsersGet(p, error)
    \/ Click

SpecClient == Init /\ [][NextClient]_vars

---------------------------------------------------------------------------
(* Properties. *)

\* Every signup body of the model.
AllSignupBodies == SignupBodies({"a@b.com", "abc"}, Profiles)

\* C1: no two rows of the User table have the same email, whatever the
\* interleaving of signup requests.
C1_EmailUnique ==
    \A u, v \in users : u.email = v.email => u = v

\* C1 witness: two signups of one email raced; one row was inserted and the other
\* request's insert was refused by the unique index.
C1_Witness ==
    /\ users # {}
    /\ \E p \in Workers : resp[p].status = 500 /\ resp[p].body.details = UniqueText

\* C2: a signup with email, password and role for an email that already has a row is
\* answered with the "User already exists" client error (400 or 409), and the table is
\* left as it was.
C2_DuplicateRejected ==
    [][ \A p \in Workers, body \in AllSignupBodies :
          ( /\ SignupBegin(p, body, "up")
            /\ ~Falsy(body.email) /\ ~Falsy(body.password) /\ ~Falsy(body.role)
            /\ \E u \in users : u.email = body.email )
          => /\ resp'[p].status \in {400, 409}
             /\ resp'[p].body = [error |-> "User already exists"]
             /\ pc'[p] = "idle"
             /\ users' = users ]_vars

\* C2 witness: a signup was refused for an email already in the table.
C2_Witness ==
    \E p \in Workers :
        /\ req[p].route = "signup"
        /\ resp[p].status = 400
        /\ resp[p].body = [error |-> "User already exists"]
        /\ \E u \in users : u.email = req[p].body.email

\* The strings a JSON body shows: its own fields, those of its user, and the claims
\* of its token (a JWT is signed, not encrypted).
StringFields ==
    {"email", "password", "fullName", "role", "dateOfBirth", "createdAt", "updatedAt",
     "message", "error", "details"}

FlatStrings(r) == {r[f] : f \in (DOMAIN r) \cap StringFields}

BodyStrings(body) ==
    FlatStrings(body)
    \cup (IF "user" \in DOMAIN body THEN FlatStrings(body.user) ELSE {})
    \cup (IF "token" \in DOMAIN body THEN FlatStrings(body.token.payload) ELSE {})

\* C3: no 201 of signup and no 200 of login or of GET /api/auth/me shows the
\* password hash of any user.
C3_NoHashInResponse ==
    \A p \in Workers :
        resp[p].status \in {200, 201} =>
            /\ "password" \notin DOMAIN resp[p].body
            /\ \A u \in users : u.password \notin BodyStrings(resp[p].body)

\* C3 witness: a login answered 200 with the user and a token.
C3_Witness ==
    \E p \in Workers :
        /\ req[p].route = "login"
        /\ resp[p].status = 200
        /\ "user" \in DOMAIN resp[p].body

\* C4: the password field of every row is the salted hash, at cost factor 10, of the
\* password of the signup that created the row, and differs from that password.
C4_PasswordHashed ==
    \A u \in users :
        \E a \in accepted :
            /\ a.id = u.id /\ a.email = u.email
            /\ u.password # a.password
            /\ \E salt \in Salts : u.password = BcryptHash(a.password, salt, 10)

\* C4 witness: two rows were created, with different salts.
C4_Witness ==
    \E u, v \in users : u.id # v.id /\ u.password # v.password

\* C5: once a signup has been answered 201, a login with the same email and
\* password is not rejected with 400 or 401 (bearer variant).
C5_LoginAfterSignup ==
    \A p \in Workers :
        ( /\ env.variant = "bearer"
          /\ req[p].route = "login"
          /\ \E a \in accepted :
                a.email = req[p].body.email /\ a.password = req[p].body.password )
        => resp[p].status \notin {400, 401}

\* A login request with a well-formed email and a non-empty password.
WellFormedLogin(body) ==
    body.email \in WellFormedEmails /\ body.password \notin {"", Absent}

BearerRequest(t) ==
    [authorization |-> [scheme |-> "Bearer", token |-> t], cookie |-> NoToken]

\* C7: the token a successful login returned, presented as Authorization: Bearer
\* before its exp, gets 200 with the id and email of the user that the signup of the
\* login's credentials created.
C7_MeAfterLogin ==
    (held.token # NoToken /\ now < held.token.payload.exp) =>
        LET r == MeResponse(BearerRequest(held.token), "up") IN
        /\ r.status = 200
        /\ \E a \in accepted :
              /\ a.email = held.email /\ a.password = held.password
              /\ r.body.user.id = a.id
              /\ r.body.user.email = a.email

\* C7 witness: days after the login, its token was presented and answered 200.
C7_Witness ==
    \E p \in Workers :
        /\ req[p].route = "me"
        /\ held.token # NoToken
        /\ req[p].request = BearerRequest(held.token)
        /\ resp[p].status = 200
        /\ now > held.token.payload.iat

\* A request without acceptable credentials: no Authorization header, one that does
\* not start with "Bearer ", a malformed token, a bad signature, or exp reached.
Unacceptable(request) ==
    \/ request.authorization.scheme # "Bearer"
    \/ request.authorization.token.kind # "jwt"
    \/ request.authorization.token.sig
         # [key |-> JWT_SECRET, over |-> request.authorization.token.payload]
    \/ now >= request.authorization.token.payload.exp

\* C8: every request without acceptable credentials is answered 401, with one and the
\* same body, and verifyToken does not throw on it.
C8_Unauthorized ==
    LET bad == {r \in MeRequests : Unacceptable(r)} IN
    \A r \in bad :
        /\ ~VerifyToken(r).threw
        /\ \A db \in {"up", "down"} : MeResponse(r, db).status = 401
        /\ \A r2 \in bad : MeResponse(r, "up").body = MeResponse(r2, "down").body

\* C8 witness: the login's token was presented after its exp and answered 401.
C8_Witness ==
    \E p \in Workers :
        /\ req[p].route = "me"
        /\ held.token # NoToken
        /\ req[p].request = BearerRequest(held.token)
        /\ now >= held.token.payload.exp
        /\ resp[p].status = 401

\* C9: a correctly signed token before its exp whose id has no row is answered 404
\* "User not found", and never 200.
C9_UnknownUser ==
    \A r \in MeRequests :
        ( /\ ~Unacceptable(r)
          /\ \A u \in users : u.id # r.authorization.token.payload.id )
        => /\ MeResponse(r, "up").status = 404
           /\ MeResponse(r, "up").body.message = "User not found"
           /\ MeResponse(r, "down").status # 200

\* C9 witness: such a token was presented while the table has rows, and answered 404.
C9_Witness ==
    \E p \in Workers :
        /\ req[p].route = "me"
        /\ resp[p].status = 404
        /\ users # {}

\* C10: a request that carries a valid token of an existing user in the session
\* cookie alone, without an Authorization header, is answered 200.
C10_CookieAuthenticates ==
    \A p \in Workers :
        ( /\ req[p].route = "me"
          /\ req[p].request.authorization.scheme = "none"
          /\ req[p].request.cookie.kind = "jwt"
          /\ req[p].request.cookie.sig
               = [key |-> JWT_SECRET, over |-> req[p].request.cookie.payload]
          /\ now < req[p].request.cookie.payload.exp
          /\ \E u \in users : u.id = req[p].request.cookie.payload.id )
        => resp[p].status = 200

\* C11: a signup whose email or password is absent or empty is answered 400, ends
\* without reaching bcrypt or the insert, and leaves the table as it was, whether the
\* store answers or not.
C11_MissingRejected ==
    [][ \A p \in Workers, body \in AllSignupBodies, db \in {"up", "down"} :
          ( /\ SignupBegin(p, body, db)
            /\ (body.email \in {"", Absent} \/ body.password \in {"", Absent}) )
          => /\ resp'[p].status = 400
             /\ pc'[p] = "idle"
             /\ users' = users ]_vars

\* C11 witness: with a row in the table, a signup with an empty or absent email or
\* password was answered 400.
C11_Witness ==
    \E p \in Workers :
        /\ users # {}
        /\ req[p].route = "signup"
        /\ (req[p].body.email \in {"", Absent} \/ req[p].body.password \in {"", Absent})
        /\ resp[p].status = 400

\* C12: a signup with a password and an email that has no row, and no role, is not
\* refused: the handler goes on to hash the password and insert the row.
C12_RoleOptional ==
    [][ \A p \in Workers, body \in AllSignupBodies :
          ( /\ SignupBegin(p, body, "up")
            /\ body.role = Absent
            /\ ~Falsy(body.email) /\ ~Falsy(body.password)
            /\ FindByEmail(body.email) = {} )
          => /\ resp'[p].status # 400
             /\ pc'[p] = "hash" ]_vars

\* C13: no signup whose email is not a well-formed address is answered 201, and no
\* row has such an email.
C13_InvalidEmailRejected ==
    /\ \A u \in users : u.email \in WellFormedEmails
    /\ \A p \in Workers :
          (req[p].route = "signup" /\ req[p].body.email \notin WellFormedEmails)
          => resp[p].status # 201

\* C14: in each login variant a login whose email or password is absent or empty is
\* answered 400 without a token, and the answer is the same whether findUnique would
\* have answered or failed: the handler returns before the lookup.
C14_LoginMissingRejected ==
    /\ \A variant \in {"bearer", "cookie"}, body \in LoginBodies :
          (body.email \in {"", Absent} \/ body.password \in {"", Absent})
          => /\ LoginResponse(variant, body, "up").status = 400
             /\ "token" \notin DOMAIN LoginResponse(variant, body, "up").body
             /\ LoginResponse(variant, body, "down") = LoginResponse(variant, body, "up")
    /\ \A p \in Workers :
          ( /\ req[p].route = "login"
            /\ (req[p].body.email \in {"", Absent} \/ req[p].body.password \in {"", Absent}) )
          => resp[p].status = 400 /\ "token" \notin DOMAIN resp[p].body

\* C14 witness: a login with the email of a user and no password was answered 400.
C14_Witness ==
    \E p \in Workers :
        /\ req[p].route = "login"
        /\ \E u \in users : u.email = req[p].body.email
        /\ req[p].body.password \in {"", Absent}
        /\ resp[p].status = 400

\* The texts of the errors the store raises.
InternalTexts == {DbDownText, UniqueText}

\* C15: where NODE_ENV is not "development", a signup or login that failed inside is
\* answered 500 and the body shows none of the text of the error.
C15_NoInternalText ==
    \A p \in Workers :
        (env.NODE_ENV # "development" /\ req[p].route \in {"signup", "login"})
        => /\ resp[p].branch = "error" => resp[p].status = 500
           /\ BodyStrings(resp[p].body) \cap InternalTexts = {}

\* C16: every step that takes in a logout request, whatever the request carries,
\* answers 200 with the acknowledgment and changes nothing but the record of the
\* request and its response: the table, the environment and all other state stay as they were.
C16_LogoutUnconditional ==
    [][ \A p \in Workers :
          (req'[p] # req[p] /\ req'[p].route = "logout")
          => /\ resp'[p].status = 200
             /\ resp'[p].body = [message |-> "Logged out successfully"]
             /\ UNCHANGED <<env, users, now, pc, local, held, accepted>> ]_vars

\* C16 witness: with a user in the table and a login's token held, a logout without
\* credentials was answered 200.
C16_Witness ==
    \E p \in Workers :
        /\ req[p].route = "logout"
        /\ req[p].request.authorization.scheme = "none"
        /\ req[p].request.cookie = NoToken
        /\ resp[p].status = 200
        /\ users # {}
        /\ held.token # NoToken

\* C17: every step keeps each row of the User table as it is, and the only step that
\* changes the table is the insert of a signup, which adds one row; the login, me and
\* logout handlers leave it as it was.
C17_RecordsKept ==
    [][ /\ \A u \in users : u \in users'
        /\ users' # users =>
              /\ Cardinality(users') = Cardinality(users) + 1
              /\ \E p \in Workers : req[p].route = "signup" /\ pc[p] = "create"
        /\ \A p \in Workers :
              (req'[p] # req[p] /\ req'[p].route \in {"login", "me"}) => users' = users
      ]_vars

\* C17 witness: with two rows in the table, a login was answered 200.
C17_Witness ==
    \E p \in Workers :
        /\ Cardinality(users) >= 2
        /\ req[p].route = "login"
        /\ resp[p].status = 200

\* C18: in the deployed login variant, bearer or cookie, a well-formed login with the
\* email and password of a signup answered 201 gets 200 from a store that answers,
\* with the token in the body in the bearer variant.
C18_BothTransports ==
    \A body \in LoginBodies :
        ( /\ WellFormedLogin(body)
          /\ \E a \in accepted : a.email = body.email /\ a.password = body.password )
        => /\ LoginResponse(env.variant, body, "up").status = 200
           /\ env.variant = "bearer" =>
                 "token" \in DOMAIN LoginResponse(env.variant, body, "up").body

\* C19: a day or more after a login issued it, which is later than 2 hours after, the
\* token of the login is answered 401 by GET /api/auth/me.
C19_ExpiresAfterTwoHours ==
    (held.token # NoToken /\ now > held.token.payload.iat)
    => MeResponse(BearerRequest(held.token), "up").status = 401

\* C20 as stated: GET /api/auth/me answers every request with 200, 401 or 404.
C20_MeStatuses ==
    \A p \in Workers :
        req[p].route = "me" => resp[p].status \in {200, 401, 404}

\* The token of request r is acceptable and its id has a row.
KnownUser(r) ==
    ~Unacceptable(r) /\ \E u \in users : u.id = r.authorization.token.payload.id

\* C20 amended: GET /api/auth/me answers 401 exactly for the requests without
\* acceptable credentials; for the others, 200 exactly where the store answers and
\* the token's user exists, 404 exactly where the store answers and it does not, and
\* 500 exactly where the lookup fails.
C20_MeStatusesOrFailure ==
    \A r \in MeRequests, db \in {"up", "down"} :
        LET status == MeResponse(r, db).status IN
        /\ status \in {200, 401, 404, 500}
        /\ status = 401 <=> Unacceptable(r)
        /\ status = 200 <=> (KnownUser(r) /\ db = "up")
        /\ status = 404 <=> (~Unacceptable(r) /\ ~KnownUser(r) /\ db = "up")
        /\ status = 500 <=> (~Unacceptable(r) /\ db = "down")

\* C20 witness: the token of a login was presented while the store was down, and
\* the answer was 500.
C20_Witness ==
    \E p \in Workers :
        /\ req[p].route = "me"
        /\ held.token # NoToken
        /\ req[p].request = BearerRequest(held.token)
        /\ resp[p].status = 500

\* pathname is root or lies below it.
Under(pathname, root) == pathname = root \/ StartsWith(pathname, root \o "/")

\* token is a JWT signed with the secret of the middleware, before its exp.
Verifies(token) ==
    /\ token.kind = "jwt"
    /\ token.sig = [key |-> MiddlewareSecret, over |-> token.payload]
    /\ now < token.payload.exp

\* C21: a request for /dashboard, /users or a path below them goes on to the page
\* where its token cookie is a JWT that verifies against the middleware's secret, and
\* is redirected to /login with any other cookie or none; a request for / or for a
\* path that starts with /login always goes on to the page.
C21_RouteGuard ==
    \A pathname \in Pathnames, token \in CookieTokens :
        /\ (Under(pathname, "/dashboard") \/ Under(pathname, "/users")) =>
              PageResponse(pathname, token)
                 = IF Verifies(token) THEN PassOn(pathname) ELSE Redirect("/login")
        /\ (pathname = "/" \/ StartsWith(pathname, "/login")) =>
              PageResponse(pathname, token) = PassOn(pathname)

\* C21 witness: the token of a login, presented days later in the cookie with a
\* request below /users, was let through.
C21_Witness ==
    \E p \in Workers :
        /\ req[p].route = "page"
        /\ Under(req[p].pathname, "/users")
        /\ held.token # NoToken
        /\ req[p].cookie = held.token
        /\ now > held.token.payload.iat
        /\ Verifies(req[p].cookie)
        /\ resp[p] = PassOn(req[p].pathname)

\* C22: once handleLogin has set the token cookie and asked for /dashboard, the
\* request is let through to the dashboard.
C22_DashboardAfterLogin ==
    \A p \in Workers :
        ( /\ browser.cookie = MockToken
          /\ req[p] = [route |-> "page", pathname |-> "/dashboard", cookie |-> MockToken] )
        => resp[p] = PassOn("/dashboard")

\* The texts of an error: its message and its stack.
ErrorTexts(error) == {error.message, error.stack} \ {Absent, ""}

\* C23: whatever error the route passed, handleError returned, and the response has
\* status 500 and success false; in production its message is the fixed text and the
\* body has no stack and none of the error's texts; elsewhere the body has the error's
\* message and its stack.
C23_HandleError ==
    \A p \in Workers :
        req[p].route = "users" =>
            LET error == req[p].error
                handled == HandleError(error, "GET /api/users")
            IN  /\ ~handled.threw
                /\ resp[p] \in handled.value
                /\ resp[p].status = 500
                /\ resp[p].body.success = FALSE
                /\ IF env.NODE_ENV = "production"
                   THEN /\ resp[p].body = [success |-> FALSE, message |-> SafeMessage]
                        /\ ErrorTexts(error) \cap {resp[p].body.message} = {}
                   ELSE /\ ~Falsy(error.message) => resp[p].body.message = error.message
                        /\ error.stack # Absent => resp[p].body.stack = error.stack

\* C24: the onClick prop has been called as many times as the Button was clicked.
C24_OneCallPerClick ==
    browser.calls = browser.clicks

\* C24 witness: the Button was clicked three times.
C24_Witness ==
    browser.clicks = 3 /\ browser.calls = 3

\* C25: of two signup requests in flight with the same email, the one whose insert the
\* unique index refuses is answered with the "User already exists" client error: no
\* signup is answered 500 on account of the index.
C25_RaceGivesConflict ==
    \A p \in Workers :
        (req[p].route = "signup" /\ resp[p].status = 500)
        => resp[p].body.details # UniqueText

\* The stored password of row u is a hash of pw.
HashOf(u, pw) == \E salt \in Salts : u.password = BcryptHash(pw, salt, 10)

\* C26: the token the client holds carries the id of a row, and the login that issued
\* it gave that row's email and a password of which the row's password is the hash;
\* and in each variant a login whose email has no row, or whose password is not the
\* one hashed in the row, gets neither 200 nor a token.
C26_TokenOnlyAfterMatch ==
    /\ held.token # NoToken =>
          \E u \in users :
              /\ u.id = held.token.payload.id
              /\ u.email = held.email
              /\ HashOf(u, held.password)
    /\ \A variant \in {"bearer", "cookie"}, body \in LoginBodies, db \in {"up", "down"} :
          (\A u \in users : u.email # body.email \/ ~HashOf(u, body.password))
          => /\ LoginResponse(variant, body, db).status # 200
             /\ "token" \notin DOMAIN LoginResponse(variant, body, db).body

\* C26 witness: a token is held from one login, and a later login with the user's
\* email and another password was answered 401 without a token.
C26_Witness ==
    \E p \in Workers :
        /\ held.token # NoToken
        /\ req[p].route = "login"
        /\ req[p].body.email = held.email
        /\ req[p].body.password # held.password
        /\ resp[p].status = 401
        /\ "token" \notin DOMAIN resp[p].body

\* C27: every token that GET /api/auth/me answers with 200 before a logout request is
\* answered with 200 after it as well.
C27_LogoutKeepsTokens ==
    [][ \A p \in Workers :
          (req'[p] # req[p] /\ req'[p].route = "logout")
          => \A t \in PresentedTokens :
                MeResponse(BearerRequest(t), "up").status = 200
                => (MeResponse(BearerRequest(t), "up").status = 200)' ]_vars

\* C27 witness: a logout was made with the token of a login, and the token still
\* gets 200.
C27_Witness ==
    \E p \in Workers :
        /\ req[p].route = "logout"
        /\ held.token # NoToken
        /\ req[p].request = BearerRequest(held.token)
        /\ MeResponse(BearerRequest(held.token), "up").status = 200

\* C28: the payload of the token a login returned has the fields id, email and role,
\* with the values of the row found for the login's email, beside the iat and exp that
\* jwt.sign adds (numbers, as id is), and no field of it is the password or its hash.
C28_TokenPayload ==
    held.token # NoToken =>
        LET payload == held.token.payload IN
        /\ DOMAIN payload = {"id", "email", "role", "iat", "exp"}
        /\ \E u \in users :
              /\ u.email = held.email
              /\ payload.id = u.id
              /\ payload.email = u.email
              /\ payload.role = u.role
              /\ \A f \in DOMAIN payload \ {"id", "iat", "exp"} :
                    payload[f] \notin {u.password, held.password}

\* C28 witness: with two rows in the table, a token is held for the row with id 2.
C28_Witness ==
    /\ held.token # NoToken
    /\ Cardinality(users) = 2
    /\ held.token.payload.id = 2

\* C29: where JWT_SECRET is absent from the environment, no login is answered with a
\* token, and GET /api/auth/me accepts no token: it answers neither 200 nor 404.
C29_NoDefaultSecret ==
    Falsy(env.JWT_SECRET) =>
        \A p \in Workers :
            /\ req[p].route = "login" => "token" \notin DOMAIN resp[p].body
            /\ req[p].route = "me" => resp[p].status \notin {200, 404}

\* The id, email and role of a payload.
Identity(payload) == [f \in {"id", "email", "role"} |-> payload[f]]

====
